---- MODULE Spec2Model ----
(***************************************************************************)
(* A model of src/services/psdService.ts.                                  *)
(*                                                                         *)
(* The source file holds every exported function twice: a first           *)
(* definition (lines 1-545) and a second definition (lines 546-935).      *)
(* Both are modelled; the second definition of a function f is named f2.  *)
(*                                                                         *)
(* Conventions                                                             *)
(*  - a JavaScript string is a sequence of one-character strings;         *)
(*  - an optional value (undefined / present) is a sequence of length 0   *)
(*    or 1: None, Some(v);                                                 *)
(*  - a native Layer carries a ghost field uid, the object's identity:    *)
(*    the list of child-array indices at which the decoder placed it;     *)
(*  - a SerializableLayer carries a ghost field src, the uid of the       *)
(*    native Layer it was built from.                                      *)
(***************************************************************************)
EXTENDS Integers, Sequences, FiniteSets, TLC

VARIABLES
    psd,        \* the native document (never changed by the service)
    op,         \* the operation that acted last
    pathId,     \* findLayerByPath: the id it was given
    tree,       \* getCleanLayerTree: what it returned, and which definition
    found,      \* findLayerByPath: what it returned
    meta,       \* extractTemplateMetadata: what it returned
    template,   \* mapLayersToContainers: the TemplateMetadata it is given
    report,     \* mapLayersToContainers: what it returned
    payload,    \* compositePayloadToCanvas: the TransformedPayload it is given
    ctxOk,      \* whether canvas.getContext('2d') hands out a context
    out         \* compositePayloadToCanvas: its outcome and the calls it made

vars == <<psd, op, pathId, tree, found, meta, template, report, payload, ctxOk, out>>
addrVars == <<pathId, tree, found>>
extractVars == <<meta>>
validateVars == <<template, report>>
compositeVars == <<payload, ctxOk, out>>

(***************************************************************************)
(* Bounds of the model.                                                    *)
(***************************************************************************)
\* total number of native layers of a document (serializer / resolver)
MaxNodes == 3
\* total number of native layers of a document resolved with arbitrary ids
MaxResolveNodes == 2
\* length of an arbitrary path id handed to the resolver
MaxIdLen == 3
\* total number of native layers of a document handed to the extractor
MaxExtractNodes == 3
\* total number of native layers of a document handed to the validator
MaxValidateNodes == 3
\* total number of layers of a payload that is composited
MaxPayloadNodes == 3
\* total number of layers of a payload composited onto a degenerate target
MaxTargetNodes == 1

(***************************************************************************)
(* Optional values.                                                        *)
(***************************************************************************)
None == <<>>
Some(v) == <<v>>
IsSome(o) == o # <<>>
Val(o) == o[1]
\* a ?? d
Nullish(o, d) == IF IsSome(o) THEN Val(o) ELSE d
\* a || d for a number
OrNum(o, d) == IF IsSome(o) /\ Val(o) # 0 THEN Val(o) ELSE d

Min(a, b) == IF a < b THEN a ELSE b

(***************************************************************************)
(* Strings.                                                                *)
(***************************************************************************)
Digits == <<"0", "1", "2", "3", "4", "5", "6", "7", "8", "9">>
IsDigit(c) == \E i \in 1..10 : Digits[i] = c
DigitVal(c) == (CHOOSE i \in 1..10 : Digits[i] = c) - 1
AllDigits(s) == \A i \in 1..Len(s) : IsDigit(s[i])

\* `${n}` for a natural number n
RECURSIVE ToStr(_)
ToStr(n) == IF n < 10 THEN <<Digits[n + 1]>> ELSE ToStr(n \div 10) \o <<Digits[(n % 10) + 1]>>

\* the value of a non-empty run of decimal digits
RECURSIVE DecVal(_)
DecVal(s) == IF Len(s) = 0 THEN 0 ELSE DecVal(SubSeq(s, 1, Len(s) - 1)) * 10 + DigitVal(s[Len(s)])

\* String.prototype.split(sep) for a one-character separator
RECURSIVE Split(_, _)
Split(s, sep) ==
    IF \A i \in 1..Len(s) : s[i] # sep THEN <<s>>
    ELSE LET k == CHOOSE i \in 1..Len(s) : s[i] = sep /\ \A j \in 1..(i - 1) : s[j] # sep
         IN  <<SubSeq(s, 1, k - 1)>> \o Split(SubSeq(s, k + 1, Len(s)), sep)

\* Number(s) on the characters of the model (digits, sign, separators,
\* letters other than hexadecimal and exponent markers): None is NaN.
\* Number("") is 0; a sign is allowed once, before at least one digit.
Number(s) ==
    IF Len(s) = 0 THEN Some(0)
    ELSE IF AllDigits(s) THEN Some(DecVal(s))
    ELSE IF s[1] \in {"-", "+"} /\ Len(s) > 1 /\ AllDigits(Tail(s))
         THEN Some(IF s[1] = "-" THEN 0 - DecVal(Tail(s)) ELSE DecVal(Tail(s)))
    ELSE None

\* the longest prefix of s made of digits
RECURSIVE DigitPrefix(_)
DigitPrefix(s) == IF Len(s) = 0 \/ ~IsDigit(s[1]) THEN <<>> ELSE <<s[1]>> \o DigitPrefix(Tail(s))

\* parseInt(s, 10): an optional sign and the longest run of digits after it;
\* None is NaN (no digit where one is expected).
parseInt(s) ==
    LET signed == Len(s) > 0 /\ s[1] \in {"-", "+"}
        body   == IF signed THEN Tail(s) ELSE s
        ds     == DigitPrefix(body)
    IN  IF Len(ds) = 0 THEN None
        ELSE Some(IF signed /\ s[1] = "-" THEN 0 - DecVal(ds) ELSE DecVal(ds))

TEMPLATE == <<"!", "!", "T", "E", "M", "P", "L", "A", "T", "E">>
RootId == <<"r", "o", "o", "t">>
LayerPrefix == <<"L", "a", "y", "e", "r", " ">>

(***************************************************************************)
(* Native documents (ag-psd Psd / Layer), as the decoder hands them over.  *)
(***************************************************************************)
MkLayer(path, a, kids) ==
    [uid |-> path, name |-> a.name, top |-> a.top, left |-> a.left,
     bottom |-> a.bottom, right |-> a.right, hidden |-> a.hidden,
     opacity |-> a.opacity, canvas |-> a.canvas, children |-> kids]

\* the attributes of a layer with the given name and nothing else set
Plain(nm) ==
    [name |-> nm, top |-> None, left |-> None, bottom |-> None, right |-> None,
     hidden |-> FALSE, opacity |-> None, canvas |-> "none"]

\* Forests of exactly n layers whose first tree sits at index start under
\* prefix; attrs[d] is the set of attributes of a layer at depth d (the last
\* entry serves every deeper level).
RECURSIVE ForestFrom(_, _, _, _)
RECURSIVE TreeAt(_, _, _)
ForestFrom(n, prefix, start, attrs) ==
    IF n = 0 THEN {<<>>}
    ELSE UNION { { <<t>> \o r : t \in TreeAt(k, prefix \o <<start>>, attrs),
                                r \in ForestFrom(n - k, prefix, start + 1, attrs) }
                 : k \in 1..n }
TreeAt(k, path, attrs) ==
    LET A == attrs[Min(Len(path), Len(attrs))]
        K == IF k = 1 THEN {None, Some(<<>>)}
             ELSE {Some(f) : f \in ForestFrom(k - 1, path, 0, attrs)}
    IN  {MkLayer(path, a, kids) : a \in A, kids \in K}

Forests(maxN, attrs) == UNION {ForestFrom(n, <<>>, 0, attrs) : n \in 0..maxN}

MkPsd(w, h, kids) == [width |-> w, height |-> h, children |-> kids]

\* every layer of a forest, at any depth
RECURSIVE AllLayers(_)
AllLayers(layers) ==
    UNION { {layers[i]} \cup (IF IsSome(layers[i].children) THEN AllLayers(Val(layers[i].children)) ELSE {})
            : i \in 1..Len(layers) }
PsdLayers(p) == IF IsSome(p.children) THEN AllLayers(Val(p.children)) ELSE {}

(***************************************************************************)
(* getCleanLayerTree, first definition (lines 320-361): ids are the       *)
(* dot-joined child indices; a layer named '!!TEMPLATE' is left out at     *)
(* every level, the indices of the others unchanged.                       *)
(***************************************************************************)
CleanNode(child, index, currentPath, kids) ==
    LET top    == Nullish(child.top, 0)
        left   == Nullish(child.left, 0)
        bottom == Nullish(child.bottom, 0)
        right  == Nullish(child.right, 0)
    IN  [id |-> currentPath,
         name |-> IF child.name # <<>> THEN child.name ELSE LayerPrefix \o ToStr(index),
         type |-> IF IsSome(child.children) THEN "group" ELSE "layer",
         isVisible |-> ~child.hidden,
         opacity |-> <<Nullish(child.opacity, 255), 255>>,
         coords |-> [x |-> left, y |-> top, w |-> right - left, h |-> bottom - top],
         children |-> kids,
         src |-> child.uid]

RECURSIVE getCleanLayerTreeFrom(_, _, _)
getCleanLayerTree(layers, path) == getCleanLayerTreeFrom(layers, path, 1)
\* the forEach of lines 323-358 from the i-th element on (index = i - 1)
getCleanLayerTreeFrom(layers, path, i) ==
    IF i > Len(layers) THEN <<>>
    ELSE LET child == layers[i]
             index == i - 1
             currentPath == IF path # <<>> THEN path \o <<".">> \o ToStr(index) ELSE ToStr(index)
             kids == IF IsSome(child.children)
                     THEN Some(getCleanLayerTree(Val(child.children), currentPath))
                     ELSE None
         IN  IF child.name = TEMPLATE
             THEN getCleanLayerTreeFrom(layers, path, i + 1)
             ELSE <<CleanNode(child, index, currentPath, kids)>>
                  \o getCleanLayerTreeFrom(layers, path, i + 1)

(***************************************************************************)
(* getCleanLayerTree, second definition (lines 804-827): ids are          *)
(* 'root' and the child indices joined by dashes; no layer is left out.    *)
(***************************************************************************)
CleanNode2(layer, index, id, kids) ==
    [id |-> id,
     name |-> IF layer.name # <<>> THEN layer.name ELSE LayerPrefix \o ToStr(index),
     type |-> IF IsSome(layer.children) THEN "group" ELSE "layer",
     isVisible |-> ~layer.hidden,
     opacity |-> IF IsSome(layer.opacity) THEN <<Val(layer.opacity), 255>> ELSE <<1, 1>>,
     coords |-> [x |-> OrNum(layer.left, 0), y |-> OrNum(layer.top, 0),
                 w |-> OrNum(layer.right, 0) - OrNum(layer.left, 0),
                 h |-> OrNum(layer.bottom, 0) - OrNum(layer.top, 0)],
     children |-> kids,
     src |-> layer.uid]

RECURSIVE getCleanLayerTree2(_, _)
getCleanLayerTree2(layers, parentId) ==
    [i \in 1..Len(layers) |->
        LET layer == layers[i]
            index == i - 1
            id    == parentId \o <<"-">> \o ToStr(index)
        IN  CleanNode2(layer, index, id,
                       IF IsSome(layer.children)
                       THEN Some(getCleanLayerTree2(Val(layer.children), id))
                       ELSE None)]

\* every SerializableLayer of a serialized tree, at any depth
RECURSIVE AllNodes(_)
AllNodes(nodes) ==
    UNION { {nodes[i]} \cup (IF IsSome(nodes[i].children) THEN AllNodes(Val(nodes[i].children)) ELSE {})
            : i \in 1..Len(nodes) }

(***************************************************************************)
(* findLayerByPath.  A result is [kind, node]: kind "node" with the layer, *)
(* kind "null", or kind "throw" (a TypeError leaves the function).         *)
(***************************************************************************)
RNull == [kind |-> "null", node |-> None]
RThrow == [kind |-> "throw", node |-> None]
RNode(n) == [kind |-> "node", node |-> Some(n)]

\* First definition (lines 371-387).  The loop of lines 378-384 from the
\* k-th index on; currentLayers is optional, targetLayer the last layer taken.
RECURSIVE Walk(_, _, _, _)
Walk(indices, k, currentLayers, targetLayer) ==
    IF k > Len(indices) THEN (IF IsSome(targetLayer) THEN RNode(Val(targetLayer)) ELSE RNull)
    ELSE LET index == indices[k]
         IN  IF ~IsSome(currentLayers)
                \/ ~IsSome(index)
                \/ Val(index) < 0
                \/ Val(index) >= Len(Val(currentLayers))
             THEN RNull
             ELSE LET t == Val(currentLayers)[Val(index) + 1]
                  IN  Walk(indices, k + 1, t.children, Some(t))

\* a resolver that stops after the first index of the id
findLayerByPathTopLevel(p, id) ==
    IF id = <<>> THEN RNull
    ELSE LET segs == Split(id, ".")
         IN  Walk(<<Number(segs[1])>>, 1, p.children, None)

findLayerByPath(p, id) ==
    IF id = <<>> THEN RNull
    ELSE LET segs == Split(id, ".")
             indices == [i \in 1..Len(segs) |-> Number(segs[i])]
         IN  Walk(indices, 1, p.children, None)

\* Second definition (lines 842-857).  An index that is NaN passes the range
\* test of line 851 (NaN >= length is false), currentLayers[NaN] is undefined
\* and line 853 reads .children of undefined: a TypeError.  A negative index
\* does the same.
RECURSIVE Walk2(_, _, _, _)
Walk2(indices, k, currentLayers, currentLayer) ==
    IF k > Len(indices) THEN (IF IsSome(currentLayer) THEN RNode(Val(currentLayer)) ELSE RNull)
    ELSE LET idx == indices[k]
         IN  IF ~IsSome(currentLayers) THEN RNull
             ELSE IF IsSome(idx) /\ Val(idx) >= Len(Val(currentLayers)) THEN RNull
             ELSE IF ~IsSome(idx) \/ Val(idx) < 0 THEN RThrow
             ELSE LET t == Val(currentLayers)[Val(idx) + 1]
                  IN  Walk2(indices, k + 1, t.children, Some(t))

findLayerByPath2(p, layerId) ==
    IF layerId = <<>> THEN RNull
    ELSE LET segs == Tail(Split(layerId, "-"))
             indices == [i \in 1..Len(segs) |-> parseInt(segs[i])]
         IN  Walk2(indices, 1, p.children, None)

(***************************************************************************)
(* extractTemplateMetadata.                                                *)
(***************************************************************************)
Untitled == <<"U", "n", "t", "i", "t", "l", "e", "d">>
ContainerWord == <<"C", "o", "n", "t", "a", "i", "n", "e", "r", " ">>
ContainerIdPrefix == <<"c", "o", "n", "t", "a", "i", "n", "e", "r", "-">>

\* s.replace(/^!!/, '')
StripBangs(s) ==
    IF Len(s) >= 2 /\ s[1] = "!" /\ s[2] = "!" THEN SubSeq(s, 3, Len(s)) ELSE s

\* s.replace(/\s+/g, '_'): the blank is the only white space of the model
RECURSIVE DropBlanks(_)
DropBlanks(s) == IF Len(s) > 0 /\ s[1] = " " THEN DropBlanks(Tail(s)) ELSE s
RECURSIVE ReplaceSpaces(_)
ReplaceSpaces(s) ==
    IF Len(s) = 0 THEN <<>>
    ELSE IF s[1] = " " THEN <<"_">> \o ReplaceSpaces(DropBlanks(s))
    ELSE <<s[1]>> \o ReplaceSpaces(Tail(s))

\* a quotient a / b, kept as the pair <<a, b>>
Frac(a, b) == <<a, b>>

\* psd.children?.find(child => child.name === '!!TEMPLATE'): the first one
FindTemplateGroup(p) ==
    IF ~IsSome(p.children) THEN None
    ELSE LET cs == Val(p.children)
             hits == {i \in 1..Len(cs) : cs[i].name = TEMPLATE}
         IN  IF hits = {} THEN None
             ELSE Some(cs[CHOOSE i \in hits : \A j \in hits : i <= j])

\* a slip: a child that lacks one of its four bounds gets an empty box
ContainerOfDegenerate(child, index, canvasWidth, canvasHeight) ==
    LET full   == IsSome(child.top) /\ IsSome(child.left)
                  /\ IsSome(child.bottom) /\ IsSome(child.right)
        top    == IF full THEN Val(child.top) ELSE 0
        left   == IF full THEN Val(child.left) ELSE 0
        width  == IF full THEN Val(child.right) - left ELSE 0
        height == IF full THEN Val(child.bottom) - top ELSE 0
        rawName == IF child.name # <<>> THEN child.name ELSE Untitled
        cleanName == StripBangs(rawName)
    IN  [id |-> ContainerIdPrefix \o ToStr(index) \o <<"-">> \o ReplaceSpaces(cleanName),
         name |-> cleanName,
         originalName |-> rawName,
         bounds |-> [x |-> left, y |-> top, w |-> width, h |-> height],
         normalized |-> [x |-> Frac(left, canvasWidth), y |-> Frac(top, canvasHeight),
                         w |-> Frac(width, canvasWidth), h |-> Frac(height, canvasHeight)]]

\* a slip: an inverted box is given the extent 0
ContainerOfClamped(child, index, canvasWidth, canvasHeight) ==
    LET top    == Nullish(child.top, 0)
        left   == Nullish(child.left, 0)
        bottom == Nullish(child.bottom, 0)
        right  == Nullish(child.right, 0)
        width  == IF right < left THEN 0 ELSE right - left
        height == IF bottom < top THEN 0 ELSE bottom - top
        rawName == IF child.name # <<>> THEN child.name ELSE Untitled
        cleanName == StripBangs(rawName)
    IN  [id |-> ContainerIdPrefix \o ToStr(index) \o <<"-">> \o ReplaceSpaces(cleanName),
         name |-> cleanName,
         originalName |-> rawName,
         bounds |-> [x |-> left, y |-> top, w |-> width, h |-> height],
         normalized |-> [x |-> Frac(left, canvasWidth), y |-> Frac(top, canvasHeight),
                         w |-> Frac(width, canvasWidth), h |-> Frac(height, canvasHeight)]]

\* lines 194-221: the container pushed for the child at index
ContainerOf(child, index, canvasWidth, canvasHeight) ==
    LET top    == Nullish(child.top, 0)
        left   == Nullish(child.left, 0)
        bottom == Nullish(child.bottom, 0)
        right  == Nullish(child.right, 0)
        width  == right - left
        height == bottom - top
        rawName == IF child.name # <<>> THEN child.name ELSE Untitled
        cleanName == StripBangs(rawName)
    IN  [id |-> ContainerIdPrefix \o ToStr(index) \o <<"-">> \o ReplaceSpaces(cleanName),
         name |-> cleanName,
         originalName |-> rawName,
         bounds |-> [x |-> left, y |-> top, w |-> width, h |-> height],
         normalized |-> [x |-> Frac(left, canvasWidth), y |-> Frac(top, canvasHeight),
                         w |-> Frac(width, canvasWidth), h |-> Frac(height, canvasHeight)]]

\* lines 739-769: the same in the second definition
ContainerOf2(child, index, canvasWidth, canvasHeight) ==
    LET top    == Nullish(child.top, 0)
        left   == Nullish(child.left, 0)
        bottom == Nullish(child.bottom, 0)
        right  == Nullish(child.right, 0)
        width  == right - left
        height == bottom - top
        rawName == IF child.name # <<>> THEN child.name ELSE ContainerWord \o ToStr(index)
        cleanName == StripBangs(rawName)
    IN  [id |-> ContainerIdPrefix \o ToStr(index),
         name |-> cleanName,
         originalName |-> rawName,
         bounds |-> [x |-> left, y |-> top, w |-> width, h |-> height],
         normalized |-> [x |-> Frac(left, canvasWidth), y |-> Frac(top, canvasHeight),
                         w |-> Frac(width, canvasWidth), h |-> Frac(height, canvasHeight)]]

\* a slip: psd.width ?? 1, which lets a zero width through
CanvasWidthNullish(p) == Nullish(p.width, 1)

\* a slip: the height is taken as given, a missing one as 0
CanvasHeightGiven(p) == IF IsSome(p.height) THEN Val(p.height) ELSE 0

\* lines 182-183: psd.width || 1, psd.height || 1
CanvasWidth(p) == OrNum(p.width, 1)
CanvasHeight(p) == OrNum(p.height, 1)

\* a slip: a child that lacks one of its four bounds is skipped
TemplateChildrenSkipping(p) ==
    LET templateGroup == FindTemplateGroup(p)
        Full(c) == IsSome(c.top) /\ IsSome(c.left) /\ IsSome(c.bottom) /\ IsSome(c.right)
    IN  IF IsSome(templateGroup) /\ IsSome(Val(templateGroup).children)
        THEN SelectSeq(Val(Val(templateGroup).children), Full)
        ELSE <<>>

\* lines 190-223: templateGroup.children.forEach, in array order
TemplateChildren(p) ==
    LET templateGroup == FindTemplateGroup(p)
    IN  IF IsSome(templateGroup) /\ IsSome(Val(templateGroup).children)
        THEN Val(Val(templateGroup).children)
        ELSE <<>>

\* First definition (lines 180-232).
extractTemplateMetadata(p) ==
    LET canvasWidth == CanvasWidth(p)
        canvasHeight == CanvasHeight(p)
        kids == TemplateChildren(p)
    IN  [canvas |-> [width |-> canvasWidth, height |-> canvasHeight],
         containers |-> [i \in 1..Len(kids) |->
                            ContainerOf(kids[i], i - 1, canvasWidth, canvasHeight)]]

\* Second definition (lines 725-780).
extractTemplateMetadata2(p) ==
    LET canvasWidth == CanvasWidth(p)
        canvasHeight == CanvasHeight(p)
        kids == TemplateChildren(p)
    IN  [canvas |-> [width |-> canvasWidth, height |-> canvasHeight],
         containers |-> [i \in 1..Len(kids) |->
                            ContainerOf2(kids[i], i - 1, canvasWidth, canvasHeight)]]

(***************************************************************************)
(* mapLayersToContainers.  An issue carries a ghost field src: the uid of  *)
(* the layer it was raised for (<<>> for the document itself).             *)
(***************************************************************************)
UntitledLayer == <<"U", "n", "t", "i", "t", "l", "e", "d", " ", "L", "a", "y", "e", "r">>
Violation == "PROCEDURAL_VIOLATION"

\* containerMap (lines 262-267): a later container of the same name replaces
\* an earlier one; None when the name is no key
ContainerMapGet(t, nm) ==
    LET hits == {i \in 1..Len(t.containers) : t.containers[i].name = nm}
    IN  IF hits = {} THEN None
        ELSE Some(t.containers[CHOOSE i \in hits : \A j \in hits : j <= i])

\* a slip: the test of the top bound is forgotten
HasNumericBoundsButTop(layer) ==
    IsSome(layer.left) /\ IsSome(layer.bottom) /\ IsSome(layer.right)

\* lines 280-281: typeof top, left, bottom, right === 'number'
HasNumericBounds(layer) ==
    IsSome(layer.top) /\ IsSome(layer.left) /\ IsSome(layer.bottom) /\ IsSome(layer.right)

\* a < b and a > b of JavaScript for an optional a: false when a is undefined
Lt(a, b) == IsSome(a) /\ Val(a) < b
Gt(a, b) == IsSome(a) /\ Val(a) > b

\* lines 284-292
IsViolation(layer, container) ==
    LET containerRight == container.bounds.x + container.bounds.w
        containerBottom == container.bounds.y + container.bounds.h
    IN  \/ Lt(layer.left, container.bounds.x)
        \/ Lt(layer.top, container.bounds.y)
        \/ Gt(layer.right, containerRight)
        \/ Gt(layer.bottom, containerBottom)

\* lines 295-300; `${layer.name}` of a layer without a name reads 'undefined'
IssueOf(layer, container) ==
    [layerName |-> IF layer.name # <<>> THEN layer.name ELSE UntitledLayer,
     containerName |-> container.name,
     type |-> Violation,
     message |-> <<"Layer '">> \o (IF layer.name # <<>> THEN layer.name ELSE <<"undefined">>)
                 \o <<"' extends outside '">> \o container.name \o <<"' container.">>,
     src |-> layer.uid]

\* lines 278-303: the issues of the children of one design group, from the
\* i-th child on
RECURSIVE GroupIssues(_, _, _)
GroupIssues(layers, container, i) ==
    IF i > Len(layers) THEN <<>>
    ELSE (IF HasNumericBounds(layers[i]) /\ IsViolation(layers[i], container)
          THEN <<IssueOf(layers[i], container)>> ELSE <<>>)
         \o GroupIssues(layers, container, i + 1)

\* lines 269-305: the issues of the top-level groups, from the i-th on
RECURSIVE DocIssues(_, _, _)
DocIssues(groups, t, i) ==
    IF i > Len(groups) THEN <<>>
    ELSE LET group == groups[i]
             container == ContainerMapGet(t, group.name)
         IN  (IF group.name # TEMPLATE /\ group.name # <<>> /\ IsSome(container)
                 /\ IsSome(group.children)
              THEN GroupIssues(Val(group.children), Val(container), 1)
              ELSE <<>>)
             \o DocIssues(groups, t, i + 1)

\* First definition (lines 260-311).
mapLayersToContainers(p, t) ==
    LET issues == IF IsSome(p.children) THEN DocIssues(Val(p.children), t, 1) ELSE <<>>
    IN  [isValid |-> Len(issues) = 0, issues |-> issues]

\* Second definition (lines 783-801): the only issue it raises is that of
\* a document without any layer.
mapLayersToContainers2(p, t) ==
    LET hasDesignRoot == IsSome(p.children)
                         /\ \E i \in 1..Len(Val(p.children)) : Val(p.children)[i].name # TEMPLATE
        issues == IF ~hasDesignRoot /\ (~IsSome(p.children) \/ Len(Val(p.children)) = 0)
                  THEN <<[layerName |-> <<"Root">>, containerName |-> <<"Global">>,
                          type |-> Violation,
                          message |-> <<"PSD appears empty or missing design layers.">>,
                          src |-> <<>>]>>
                  ELSE <<>>
    IN  [isValid |-> Len(issues) = 0, issues |-> issues]

(***************************************************************************)
(* compositePayloadToCanvas.                                               *)
(*                                                                         *)
(* The drawing surface is the list of the calls made on the context, each  *)
(* [f, layer, args, failed]: layer is the position (ghost field pos) of    *)
(* the payload layer the call was made for, <<>> for the canvas itself;    *)
(* lengths are in half pixels (twice the value), angles in degrees, alpha  *)
(* in hundredths; failed marks a call that threw.  finds lists the ids     *)
(* handed to findLayerByPath.  A pixel source is "ok", "corrupt" (drawImage *)
(* throws on it) or "none".  payload and psd are present (line 398).       *)
(***************************************************************************)
Emit(st, f, pos, args, failed) ==
    [st EXCEPT !.calls = Append(@, [f |-> f, layer |-> pos, args |-> args, failed |-> failed])]

Sought(st, layer) ==
    [st EXCEPT !.finds = Append(@, [layer |-> layer.pos, id |-> layer.id])]

NoCalls == [calls |-> <<>>, finds |-> <<>>, threw |-> FALSE]

RectArgs(x, y, w, h) == <<2 * x, 2 * y, 2 * w, 2 * h>>

\* lines 420-425: the layer's box lies off the canvas
Culled(layer, w, h) ==
    \/ layer.coords.x > w
    \/ layer.coords.y > h
    \/ layer.coords.x + layer.coords.w < 0
    \/ layer.coords.y + layer.coords.h < 0

\* a slip: without a preview reference nothing is drawn
DrawGenerativePreviewOnly(layer, st, pl) ==
    LET r  == RectArgs(layer.coords.x, layer.coords.y, layer.coords.w, layer.coords.h)
        s1 == Emit(st, "globalAlpha", layer.pos, <<layer.opacity>>, FALSE)
    IN  IF pl.previewUrl
        THEN LET s2 == Emit(s1, "fillRect", layer.pos, r, FALSE)
                 s3 == Emit(s2, "strokeRect", layer.pos, r, FALSE)
             IN  Emit(s3, "fillText", layer.pos,
                      <<2 * (layer.coords.x + 4), 2 * (layer.coords.y + 12)>>, FALSE)
        ELSE s1

\* lines 439-472: the placeholder of a generative layer
DrawGenerative(layer, st, pl) ==
    LET r  == RectArgs(layer.coords.x, layer.coords.y, layer.coords.w, layer.coords.h)
        s1 == Emit(st, "globalAlpha", layer.pos, <<layer.opacity>>, FALSE)
    IN  IF pl.previewUrl
        THEN LET s2 == Emit(s1, "fillRect", layer.pos, r, FALSE)
                 s3 == Emit(s2, "strokeRect", layer.pos, r, FALSE)
             IN  Emit(s3, "fillText", layer.pos,
                      <<2 * (layer.coords.x + 4), 2 * (layer.coords.y + 12)>>, FALSE)
        ELSE LET s2 == Emit(s1, "createLinearGradient", layer.pos,
                            <<2 * layer.coords.x, 2 * layer.coords.y,
                              2 * (layer.coords.x + layer.coords.w),
                              2 * (layer.coords.y + layer.coords.h)>>, FALSE)
                 s3 == Emit(s2, "fillRect", layer.pos, r, FALSE)
             IN  Emit(s3, "strokeRect", layer.pos, r, FALSE)

\* lines 477-507: the pixels of a native layer; a throw of drawImage is
\* caught at line 504
DrawPixels(layer, st, p) ==
    LET originalLayer == findLayerByPath(p, layer.id)
        s0 == Sought(st, layer)
    IN  IF originalLayer.kind = "node" /\ Val(originalLayer.node).canvas # "none"
        THEN LET s1 == Emit(s0, "globalAlpha", layer.pos, <<layer.opacity>>, FALSE)
                 s2 == Emit(s1, "translate", layer.pos,
                            <<2 * layer.coords.x + layer.coords.w,
                              2 * layer.coords.y + layer.coords.h>>, FALSE)
                 s3 == IF layer.transform.rotation # 0
                       THEN Emit(s2, "rotate", layer.pos, <<layer.transform.rotation>>, FALSE)
                       ELSE s2
             IN  Emit(s3, "drawImage", layer.pos,
                      <<0 - layer.coords.w, 0 - layer.coords.h,
                        2 * layer.coords.w, 2 * layer.coords.h>>,
                      Val(originalLayer.node).canvas = "corrupt")
        ELSE s0

RECURSIVE DrawLayer(_, _, _, _)

\* a slip: the siblings are walked from index 0 up
RECURSIVE drawLayersAscending(_, _, _, _, _)
drawLayersAscending(layers, i, st, pl, p) ==
    IF i > Len(layers) THEN st
    ELSE drawLayersAscending(layers, i + 1, DrawLayer(layers[i], st, pl, p), pl, p)
drawLayersForward(layers, st, pl, p) == drawLayersAscending(layers, 1, st, pl, p)

\* lines 414-512: the loop from index i - 1 down to index 0
RECURSIVE drawLayersFrom(_, _, _, _, _)
drawLayersFrom(layers, i, st, pl, p) ==
    IF i = 0 THEN st
    ELSE drawLayersFrom(layers, i - 1, DrawLayer(layers[i], st, pl, p), pl, p)

\* First definition of drawLayers (lines 412-513).
drawLayers(layers, st, pl, p) == drawLayersFrom(layers, Len(layers), st, pl, p)

\* lines 415-511: one turn of the loop
DrawLayer(layer, st, pl, p) ==
    IF Culled(layer, pl.metrics.target.w, pl.metrics.target.h) THEN st
    ELSE IF ~layer.isVisible THEN st
    ELSE LET s1 == Emit(st, "save", layer.pos, <<>>, FALSE)
             s2 == IF layer.type = "group" /\ IsSome(layer.children)
                   THEN drawLayers(Val(layer.children), s1, pl, p)
                   ELSE IF layer.type = "generative" THEN DrawGenerative(layer, s1, pl)
                   ELSE DrawPixels(layer, s1, p)
         IN  Emit(s2, "restore", layer.pos, <<>>, FALSE)

\* First definition (lines 397-518).
compositePayloadToCanvas(pl, p, ctx) ==
    IF ~ctx THEN [result |-> "null", calls |-> <<>>, finds |-> <<>>, threw |-> FALSE]
    ELSE LET s0 == Emit(NoCalls, "fillRect", <<>>,
                        RectArgs(0, 0, pl.metrics.target.w, pl.metrics.target.h), FALSE)
             s1 == drawLayers(pl.layers, s0, pl, p)
             s2 == Emit(s1, "toDataURL", <<>>, <<>>, FALSE)
         IN  [result |-> "url", calls |-> s2.calls, finds |-> s2.finds, threw |-> FALSE]

\* lines 884-885: target.x || 0, target.y || 0
TargetX(pl) == OrNum(pl.metrics.target.x, 0)
TargetY(pl) == OrNum(pl.metrics.target.y, 0)

\* lines 893-902: the placeholder of a generative layer
DrawGenerative2(layer, st, pl) ==
    LET r  == RectArgs(layer.coords.x - TargetX(pl), layer.coords.y - TargetY(pl),
                       layer.coords.w, layer.coords.h)
        s1 == Emit(st, "save", layer.pos, <<>>, FALSE)
        s2 == Emit(s1, "fillRect", layer.pos, r, FALSE)
        s3 == Emit(s2, "strokeRect", layer.pos, r, FALSE)
    IN  Emit(s3, "restore", layer.pos, <<>>, FALSE)

\* lines 904-923: the pixels of a native layer; nothing catches a throw of
\* findLayerByPath or of drawImage, which leaves drawLayers at once
DrawPixels2(layer, st, pl, p) ==
    LET originalLayer == findLayerByPath2(p, layer.id)
        s0 == Sought(st, layer)
        lx == layer.coords.x - TargetX(pl)
        ly == layer.coords.y - TargetY(pl)
        rot == layer.transform.rotation
        cx2 == 2 * lx + layer.coords.w
        cy2 == 2 * ly + layer.coords.h
    IN  IF originalLayer.kind = "throw" THEN [s0 EXCEPT !.threw = TRUE]
        ELSE IF originalLayer.kind = "node" /\ Val(originalLayer.node).canvas # "none"
        THEN LET s1 == Emit(s0, "save", layer.pos, <<>>, FALSE)
                 s2 == Emit(s1, "globalAlpha", layer.pos, <<layer.opacity>>, FALSE)
                 s3 == IF rot # 0
                       THEN Emit(Emit(Emit(s2, "translate", layer.pos, <<cx2, cy2>>, FALSE),
                                      "rotate", layer.pos, <<rot>>, FALSE),
                                 "translate", layer.pos, <<0 - cx2, 0 - cy2>>, FALSE)
                       ELSE s2
                 bad == Val(originalLayer.node).canvas = "corrupt"
                 s4 == Emit(s3, "drawImage", layer.pos,
                            RectArgs(lx, ly, layer.coords.w, layer.coords.h), bad)
             IN  IF bad THEN [s4 EXCEPT !.threw = TRUE]
                 ELSE Emit(s4, "restore", layer.pos, <<>>, FALSE)
        ELSE s0

RECURSIVE DrawLayer2(_, _, _, _)

\* lines 889-929: the loop from index i - 1 down to index 0, left by a throw
RECURSIVE drawLayers2From(_, _, _, _, _)
drawLayers2From(layers, i, st, pl, p) ==
    IF i = 0 \/ st.threw THEN st
    ELSE drawLayers2From(layers, i - 1, DrawLayer2(layers[i], st, pl, p), pl, p)

\* Second definition of drawLayers (lines 887-930).
drawLayers2(layers, st, pl, p) == drawLayers2From(layers, Len(layers), st, pl, p)

\* a slip: the visibility flag is not read
DrawLayer2ShowingAll(layer, st, pl, p) ==
    LET s1 == IF layer.type = "generative" THEN DrawGenerative2(layer, st, pl)
              ELSE IF layer.type # "group" THEN DrawPixels2(layer, st, pl, p)
              ELSE st
    IN  IF s1.threw THEN s1
        ELSE IF IsSome(layer.children) THEN drawLayers2(Val(layer.children), s1, pl, p)
        ELSE s1

\* lines 890-928: one turn of the loop
DrawLayer2(layer, st, pl, p) ==
    IF ~layer.isVisible THEN st
    ELSE LET s1 == IF layer.type = "generative" THEN DrawGenerative2(layer, st, pl)
                   ELSE IF layer.type # "group" THEN DrawPixels2(layer, st, pl, p)
                   ELSE st
         IN  IF s1.threw THEN s1
             ELSE IF IsSome(layer.children) THEN drawLayers2(Val(layer.children), s1, pl, p)
             ELSE s1

\* Second definition (lines 874-935).
compositePayloadToCanvas2(pl, p, ctx) ==
    IF pl.metrics.target.w <= 0 \/ pl.metrics.target.h <= 0
    THEN [result |-> "null", calls |-> <<>>, finds |-> <<>>, threw |-> FALSE]
    ELSE IF ~ctx THEN [result |-> "null", calls |-> <<>>, finds |-> <<>>, threw |-> FALSE]
    ELSE LET s1 == drawLayers2(pl.layers, NoCalls, pl, p)
         IN  IF s1.threw
             THEN [result |-> "throw", calls |-> s1.calls, finds |-> s1.finds, threw |-> TRUE]
             ELSE [result |-> "url", calls |-> Emit(s1, "toDataURL", <<>>, <<>>, FALSE).calls,
                   finds |-> s1.finds, threw |-> FALSE]

(***************************************************************************)
(* Inputs of the addressing operations.                                    *)
(***************************************************************************)
NameA == <<"A">>

\* documents whose layers are named 'A' or '!!TEMPLATE', at every depth
AddrAttrs == << {Plain(TEMPLATE), Plain(NameA)} >>
AddrDocs(n) == {MkPsd(Some(2), Some(2), Some(f)) : f \in Forests(n, AddrAttrs)}

\* documents resolved with arbitrary ids, one without a child list
ResolveAttrs == << {Plain(NameA)} >>
ResolveDocs(n) ==
    {MkPsd(Some(2), Some(2), Some(f)) : f \in Forests(n, ResolveAttrs)}
    \cup {MkPsd(Some(2), Some(2), None)}

IdChars == {"0", "1", ".", "-", "r"}
RECURSIVE StringsUpTo(_, _)
StringsUpTo(chars, n) ==
    IF n = 0 THEN {<<>>}
    ELSE LET S == StringsUpTo(chars, n - 1)
         IN  S \cup {Append(s, c) : s \in {t \in S : Len(t) = n - 1}, c \in chars}
ArbIds(n) == StringsUpTo(IdChars, n)

NoTree == [def |-> "none", nodes |-> <<>>]
NoResult == [kind |-> "idle", node |-> None]
NoMeta == [canvas |-> [width |-> 0, height |-> 0], containers |-> <<>>]
NoReport == [isValid |-> TRUE, issues |-> <<>>]
NoPayload == [metrics |-> [target |-> [w |-> 0, h |-> 0, x |-> None, y |-> None]],
              previewUrl |-> FALSE, layers |-> <<>>]
NoOut == [result |-> "idle", calls |-> <<>>, finds |-> <<>>, threw |-> FALSE]

\* the values of the variables an operation has not touched yet
IdleAddr == pathId = <<>> /\ tree = NoTree /\ found = NoResult
IdleExtract == meta = NoMeta
IdleValidate == template = NoMeta /\ report = NoReport
IdleComposite == payload = NoPayload /\ ctxOk = TRUE /\ out = NoOut

(***************************************************************************)
(* The addressing operations as actions.  The native document is never     *)
(* changed by the service.                                                 *)
(***************************************************************************)
\* getCleanLayerTree(psd.children), first definition
GetCleanLayerTree ==
    /\ IsSome(psd.children)
    /\ tree' = [def |-> "first", nodes |-> getCleanLayerTree(Val(psd.children), <<>>)]
    /\ op' = "getCleanLayerTree"
    /\ UNCHANGED <<psd, pathId, found, extractVars, validateVars, compositeVars>>

\* getCleanLayerTree(psd.children), second definition (parentId = 'root')
GetCleanLayerTree2 ==
    /\ IsSome(psd.children)
    /\ tree' = [def |-> "second", nodes |-> getCleanLayerTree2(Val(psd.children), RootId)]
    /\ op' = "getCleanLayerTree2"
    /\ UNCHANGED <<psd, pathId, found, extractVars, validateVars, compositeVars>>

FindLayerByPath(id) ==
    /\ pathId' = id
    /\ found' = findLayerByPath(psd, id)
    /\ op' = "findLayerByPath"
    /\ UNCHANGED <<psd, tree, extractVars, validateVars, compositeVars>>

FindLayerByPath2(id) ==
    /\ pathId' = id
    /\ found' = findLayerByPath2(psd, id)
    /\ op' = "findLayerByPath2"
    /\ UNCHANGED <<psd, tree, extractVars, validateVars, compositeVars>>

TreeIds == {s.id : s \in AllNodes(tree.nodes)}

\* Serializer and resolver: a document is serialized, and the ids of the
\* serialized tree are resolved against the same, unchanged document.
InitAddr ==
    /\ psd \in AddrDocs(MaxNodes)
    /\ op = "init"
    /\ IdleAddr /\ IdleExtract /\ IdleValidate /\ IdleComposite

NextAddr ==
    \/ GetCleanLayerTree
    \/ GetCleanLayerTree2
    \/ \E id \in TreeIds : FindLayerByPath(id)
    \/ \E id \in TreeIds : FindLayerByPath2(id)

SpecAddr == InitAddr /\ [][NextAddr]_vars

\* Resolver alone: any id is resolved against a document.
InitResolve ==
    /\ psd \in ResolveDocs(MaxResolveNodes)
    /\ op = "init"
    /\ IdleAddr /\ IdleExtract /\ IdleValidate /\ IdleComposite

\* a call leaves nothing behind in the service: one call per behaviour
NextResolve ==
    \/ op = "init" /\ \E id \in ArbIds(MaxIdLen) : FindLayerByPath(id)
    \/ op = "init" /\ \E id \in ArbIds(MaxIdLen) : FindLayerByPath2(id)

SpecResolve == InitResolve /\ [][NextResolve]_vars

(***************************************************************************)
(* C1.  Address round-trip.                                                *)
(***************************************************************************)
\* the resolver that reads the ids the serializer of tree.def writes
SameScheme ==
    \/ op = "findLayerByPath" /\ tree.def = "first"
    \/ op = "findLayerByPath2" /\ tree.def = "second"

\* C1: on an unchanged document, resolving the id of any node of the
\* serialized tree (at any depth) with the resolver of the same definition
\* returns the native layer that node was built from.
C1_AddressRoundTrip ==
    SameScheme =>
        \A s \in AllNodes(tree.nodes) :
            s.id = pathId =>
                /\ found.kind = "node"
                /\ Val(found.node).uid = s.src
                /\ Val(found.node) \in PsdLayers(psd)

\* a node two levels down, behind a filtered template sibling, is resolved
C1_Witness ==
    /\ op = "findLayerByPath" /\ tree.def = "first"
    /\ found.kind = "node"
    /\ Len(Val(found.node).uid) >= 2
    /\ Val(found.node).uid[1] >= 1
    /\ Val(psd.children)[1].name = TEMPLATE
    /\ \E s \in AllNodes(tree.nodes) : s.id = pathId

(***************************************************************************)
(* C8.  The template root is absent from the serialized tree.              *)
(***************************************************************************)
\* C8: no node of the serialized tree was built from a native layer named
\* '!!TEMPLATE', whatever the depth of that layer.
C8_NoTemplateNode ==
    tree.def # "none" =>
        \A s \in AllNodes(tree.nodes) :
            \A n \in PsdLayers(psd) : n.uid = s.src => n.name # TEMPLATE

\* the same for the first definition alone
C8_FirstDefinitionFilters ==
    tree.def = "first" =>
        \A s \in AllNodes(tree.nodes) :
            \A n \in PsdLayers(psd) : n.uid = s.src => n.name # TEMPLATE

(***************************************************************************)
(* C2.  The resolver answers "not found" for a bad id.                     *)
(***************************************************************************)
IsLetter(c) == c = "r"
HasLetter(seg) == \E i \in 1..Len(seg) : IsLetter(seg[i])

\* the index segments of an id, as each definition cuts them
IndexSegments(id) ==
    IF op = "findLayerByPath2" THEN Tail(Split(id, "-")) ELSE Split(id, ".")

\* the walk along decimal indices leaves the tree at some depth
RECURSIVE OutOfRange(_, _)
OutOfRange(layers, idxs) ==
    /\ Len(idxs) > 0
    /\ \/ ~IsSome(layers)
       \/ idxs[1] >= Len(Val(layers))
       \/ OutOfRange(Val(layers)[idxs[1] + 1].children, Tail(idxs))

BadId(id) ==
    LET segs == IndexSegments(id)
    IN  \/ id = <<>>
        \/ \E i \in 1..Len(segs) : HasLetter(segs[i])
        \/ /\ \A i \in 1..Len(segs) : Len(segs[i]) > 0 /\ AllDigits(segs[i])
           /\ OutOfRange(psd.children, [i \in 1..Len(segs) |-> DecVal(segs[i])])

\* C2: for the empty id, an id with a non-numeric segment or an id with an
\* index out of range at some depth, the resolver returns null and does not
\* throw.
C2_BadIdIsNotFound ==
    (op \in {"findLayerByPath", "findLayerByPath2"} /\ BadId(pathId)) => found.kind = "null"

\* the same for the first definition alone
C2_FirstDefinitionNotFound ==
    (op = "findLayerByPath" /\ BadId(pathId)) => found.kind = "null"

(***************************************************************************)
(* Inputs of the extractor.                                                *)
(***************************************************************************)
NameBG == <<"B", "G">>
NameBangBG == <<"!", "!", "B", "G">>
NameS == <<"S">>
NameL == <<"L">>

Box(nm, t, l, b, r) ==
    [name |-> nm, top |-> t, left |-> l, bottom |-> b, right |-> r,
     hidden |-> FALSE, opacity |-> None, canvas |-> "none"]

\* the children of a template root: a full box, a box with its right edge
\* alone, a nameless layer without a box, an inverted box, and a layer that
\* carries the reserved name below the top level
ExtractBoxes ==
    {Box(NameBangBG, Some(0), Some(0), Some(2), Some(4)),
     Box(NameS, None, None, None, Some(3)),
     Box(<<>>, None, None, None, None),
     Box(NameS, Some(1), Some(3), Some(0), Some(1)),
     Plain(TEMPLATE)}

ExtractAttrs ==
    << {Plain(TEMPLATE), Plain(NameBG)},
       ExtractBoxes,
       {Plain(NameA)} >>

\* width and height of the document: missing, zero, positive
ExtractDims == {<<None, None>>, <<Some(0), Some(2)>>, <<Some(4), Some(2)>>}

ExtractDocs(n) ==
    {MkPsd(d[1], d[2], Some(f)) : d \in ExtractDims, f \in Forests(n, ExtractAttrs)}
    \cup {MkPsd(d[1], d[2], None) : d \in ExtractDims}

ExtractTemplateMetadata ==
    /\ meta' = extractTemplateMetadata(psd)
    /\ op' = "extractTemplateMetadata"
    /\ UNCHANGED <<psd, addrVars, validateVars, compositeVars>>

ExtractTemplateMetadata2 ==
    /\ meta' = extractTemplateMetadata2(psd)
    /\ op' = "extractTemplateMetadata2"
    /\ UNCHANGED <<psd, addrVars, validateVars, compositeVars>>

InitExtract ==
    /\ psd \in ExtractDocs(MaxExtractNodes)
    /\ op = "init"
    /\ IdleAddr /\ IdleExtract /\ IdleValidate /\ IdleComposite

NextExtract ==
    \/ ExtractTemplateMetadata
    \/ ExtractTemplateMetadata2

SpecExtract == InitExtract /\ [][NextExtract]_vars

Extracted == op \in {"extractTemplateMetadata", "extractTemplateMetadata2"}

\* the indices of the direct children of the document named '!!TEMPLATE'
TopTemplates ==
    IF IsSome(psd.children)
    THEN {i \in 1..Len(Val(psd.children)) : Val(psd.children)[i].name = TEMPLATE}
    ELSE {}

(***************************************************************************)
(* C9.  A document without a template root.                                *)
(***************************************************************************)
\* C9 as stated: with no direct child named '!!TEMPLATE', the extractor
\* returns no container and a canvas equal to the width and height given.
C9_NoTemplateGivenCanvas ==
    (Extracted /\ TopTemplates = {}) =>
        /\ meta.containers = <<>>
        /\ Some(meta.canvas.width) = psd.width
        /\ Some(meta.canvas.height) = psd.height

\* C9 as amended: with no direct child named '!!TEMPLATE', the extractor
\* returns no container and a canvas equal to the width and height given,
\* a missing or zero dimension being reported as 1.
C9_NoTemplateCanvasOrOne ==
    (Extracted /\ TopTemplates = {}) =>
        /\ meta.containers = <<>>
        /\ meta.canvas.width = (IF psd.width \in {None, Some(0)} THEN 1 ELSE Val(psd.width))
        /\ meta.canvas.height = (IF psd.height \in {None, Some(0)} THEN 1 ELSE Val(psd.height))

\* a document with layers, none a template root, and a zero width
C9_Witness ==
    /\ Extracted /\ TopTemplates = {}
    /\ IsSome(psd.children) /\ Len(Val(psd.children)) >= 1
    /\ IsSome(Val(psd.children)[1].children)
    /\ Len(Val(Val(psd.children)[1].children)) >= 1
    /\ psd.width = Some(0)
    /\ meta.canvas.width = 1

(***************************************************************************)
(* C10.  One container per template child, in document order.              *)
(***************************************************************************)
\* the direct children of the first top-level layer named '!!TEMPLATE'
FirstTemplateKids ==
    LET g == Val(psd.children)[CHOOSE i \in TopTemplates : \A j \in TopTemplates : i <= j]
    IN  IF IsSome(g.children) THEN Val(g.children) ELSE <<>>

\* the k-th container carries the index, the name and the box of child c
DerivedFrom(container, c, k) ==
    /\ SubSeq(container.id, 1, Len(ContainerIdPrefix) + Len(ToStr(k - 1)))
          = ContainerIdPrefix \o ToStr(k - 1)
    /\ c.name # <<>> => container.originalName = c.name
    /\ c.name = <<>> => container.originalName \in {Untitled, ContainerWord \o ToStr(k - 1)}
    /\ container.bounds.x = (IF IsSome(c.left) THEN Val(c.left) ELSE 0)
    /\ container.bounds.y = (IF IsSome(c.top) THEN Val(c.top) ELSE 0)
    /\ container.bounds.x + container.bounds.w = (IF IsSome(c.right) THEN Val(c.right) ELSE 0)
    /\ container.bounds.y + container.bounds.h = (IF IsSome(c.bottom) THEN Val(c.bottom) ELSE 0)

\* C10: when a top-level layer named '!!TEMPLATE' exists, the extractor
\* returns as many containers as that layer (the first of that name) has
\* direct children, and the k-th container is the one of the k-th child.
C10_OneContainerPerChild ==
    (Extracted /\ TopTemplates # {}) =>
        /\ Len(meta.containers) = Len(FirstTemplateKids)
        /\ \A k \in 1..Len(meta.containers) :
               DerivedFrom(meta.containers[k], FirstTemplateKids[k], k)

\* a template root with two children that differ, one of them without a box
C10_Witness ==
    /\ Extracted /\ TopTemplates # {}
    /\ Len(FirstTemplateKids) = 2
    /\ FirstTemplateKids[1] # FirstTemplateKids[2]
    /\ ~IsSome(FirstTemplateKids[1].left)
    /\ FirstTemplateKids[2].name = NameBangBG
    /\ Len(meta.containers) = 2

(***************************************************************************)
(* C11.  A template child with missing bounds.                             *)
(***************************************************************************)
\* the bound of a layer as the extractor reads it: a missing one is 0
ReadBound(b) == IF IsSome(b) THEN Val(b) ELSE 0

LacksHorizontal(c) == ~IsSome(c.left) \/ ~IsSome(c.right)
LacksVertical(c) == ~IsSome(c.top) \/ ~IsSome(c.bottom)

\* C11 as stated: a template child that lacks one or more of its bounds is
\* not skipped, and its container has extent 0 on every axis that lacks a
\* bound.
C11_MissingBoundsZeroArea ==
    (Extracted /\ TopTemplates # {}) =>
        /\ Len(meta.containers) = Len(FirstTemplateKids)
        /\ \A k \in 1..Len(meta.containers) :
               /\ LacksHorizontal(FirstTemplateKids[k]) => meta.containers[k].bounds.w = 0
               /\ LacksVertical(FirstTemplateKids[k]) => meta.containers[k].bounds.h = 0

\* C11 as amended: a template child that lacks one or more of its bounds is
\* not skipped; each missing bound is read as 0, so its container has extent
\* 0 on an axis that lacks both bounds, and the value of the bound that is
\* present (negated, when that is the near one) on an axis that lacks one.
C11_MissingBoundsReadAsZero ==
    (Extracted /\ TopTemplates # {}) =>
        /\ Len(meta.containers) = Len(FirstTemplateKids)
        /\ \A k \in 1..Len(meta.containers) :
               LET c == FirstTemplateKids[k]
                   b == meta.containers[k].bounds
               IN  /\ (~IsSome(c.left) /\ ~IsSome(c.right)) => b.w = 0
                   /\ (~IsSome(c.top) /\ ~IsSome(c.bottom)) => b.h = 0
                   /\ (~IsSome(c.left) /\ IsSome(c.right)) => b.w = Val(c.right)
                   /\ (IsSome(c.left) /\ ~IsSome(c.right)) => b.w = 0 - Val(c.left)
                   /\ (~IsSome(c.top) /\ IsSome(c.bottom)) => b.h = Val(c.bottom)
                   /\ (IsSome(c.top) /\ ~IsSome(c.bottom)) => b.h = 0 - Val(c.top)

\* a child with its right edge alone and a child without any bound are both
\* given a container: the first three wide and flat, the second empty
C11_Witness ==
    /\ Extracted /\ TopTemplates # {}
    /\ Len(FirstTemplateKids) = 2
    /\ ~IsSome(FirstTemplateKids[1].left) /\ IsSome(FirstTemplateKids[1].right)
    /\ ~IsSome(FirstTemplateKids[2].left) /\ ~IsSome(FirstTemplateKids[2].right)
    /\ Len(meta.containers) = 2
    /\ meta.containers[1].bounds.w = 3 /\ meta.containers[1].bounds.h = 0
    /\ meta.containers[2].bounds.w = 0 /\ meta.containers[2].bounds.h = 0

(***************************************************************************)
(* C12.  The canvas is at least 1 x 1.                                     *)
(***************************************************************************)
\* C12: for every document (its width and height a size, zero included, or
\* missing), the canvas of the metadata is at least 1 wide and 1 high, so no
\* normalized value has a zero divisor.
C12_CanvasAtLeastOne ==
    Extracted =>
        /\ meta.canvas.width >= 1
        /\ meta.canvas.height >= 1
        /\ \A k \in 1..Len(meta.containers) :
               LET n == meta.containers[k].normalized
               IN  n.x[2] # 0 /\ n.y[2] # 0 /\ n.w[2] # 0 /\ n.h[2] # 0

\* a document without a height, with a template child: the canvas is 1 high
\* and the child's normalized box is divided by 1
C12_Witness ==
    /\ Extracted /\ TopTemplates # {}
    /\ psd.height = None /\ psd.width = None
    /\ meta.canvas.height = 1 /\ meta.canvas.width = 1
    /\ Len(meta.containers) >= 1
    /\ meta.containers[1].normalized.h[2] = 1
    /\ meta.containers[1].bounds.h # 0

(***************************************************************************)
(* C13.  Pixel bounds and normalized bounds of a container.                *)
(***************************************************************************)
\* the quotient q = <<a, b>> is the value v / d
IsQuotient(q, v, d) == q[2] # 0 /\ d # 0 /\ q[1] * d = v * q[2]

\* C13: every container has the pixel bounds x = left, y = top,
\* w = right - left, h = bottom - top of its child, and normalized bounds
\* that are these values divided by the canvas width (x, w) and the canvas
\* height (y, h); a negative extent of an inverted box is kept as it is.
C13_NormalizedBounds ==
    (Extracted /\ TopTemplates # {} /\ meta.canvas.width > 0 /\ meta.canvas.height > 0) =>
        \A k \in 1..Len(meta.containers) :
            LET c == FirstTemplateKids[k]
                b == meta.containers[k].bounds
                n == meta.containers[k].normalized
                left == ReadBound(c.left)
                top == ReadBound(c.top)
                right == ReadBound(c.right)
                bottom == ReadBound(c.bottom)
            IN  /\ b.x = left /\ b.y = top
                /\ b.w = right - left /\ b.h = bottom - top
                /\ IsQuotient(n.x, left, meta.canvas.width)
                /\ IsQuotient(n.w, right - left, meta.canvas.width)
                /\ IsQuotient(n.y, top, meta.canvas.height)
                /\ IsQuotient(n.h, bottom - top, meta.canvas.height)

\* an inverted box (left 3, right 1, top 1, bottom 0) on a 4 x 2 canvas:
\* w = -2, h = -1, normalized w = -2/4, h = -1/2
C13_Witness ==
    /\ Extracted /\ TopTemplates # {}
    /\ meta.canvas.width = 4 /\ meta.canvas.height = 2
    /\ \E k \in 1..Len(meta.containers) :
          /\ meta.containers[k].bounds.w = 0 - 2
          /\ meta.containers[k].bounds.h = 0 - 1
          /\ meta.containers[k].bounds.x = 3
          /\ IsQuotient(meta.containers[k].normalized.w, 0 - 1, 2)
          /\ IsQuotient(meta.containers[k].normalized.x, 3, 4)

(***************************************************************************)
(* Inputs of the validator.                                                *)
(***************************************************************************)
\* The containers come from the extractor: a template with the containers
\* BG = {x 1, y 1, w 2, h 2} and S = {x 0, y 0, w 4, h 4}, one with two
\* containers named BG (the second one the smaller), one without any
\* container.
TemplateDoc(kids) ==
    MkPsd(Some(4), Some(4),
          Some(<<MkLayer(<<0>>, Plain(TEMPLATE),
                         Some([i \in 1..Len(kids) |-> MkLayer(<<0, i - 1>>, kids[i], None)]))>>))

BoxBG == Box(NameBangBG, Some(1), Some(1), Some(3), Some(3))
BoxS == Box(NameS, Some(0), Some(0), Some(4), Some(4))
BoxBGSmall == Box(NameBG, Some(2), Some(2), Some(3), Some(3))

TemplateDocs ==
    {TemplateDoc(<<BoxBG, BoxS>>), TemplateDoc(<<BoxBG, BoxBGSmall>>), TemplateDoc(<<>>)}

Templates ==
    {extractTemplateMetadata(d) : d \in TemplateDocs}
    \cup {extractTemplateMetadata2(d) : d \in TemplateDocs}

\* The boxes of a design layer, against the container {x 1, y 1, w 2, h 2}:
\* inside (touching all four edges), beyond one edge each, beyond three edges
\* with the fourth bound missing, without any bound.
ValidateBoxes ==
    {Box(NameL, Some(1), Some(1), Some(3), Some(3)),
     Box(NameL, Some(1), Some(0), Some(3), Some(3)),
     Box(NameL, Some(0), Some(1), Some(3), Some(3)),
     Box(NameL, Some(1), Some(1), Some(3), Some(4)),
     Box(NameL, Some(1), Some(1), Some(4), Some(3)),
     Box(<<>>, None, Some(0), Some(4), Some(4)),
     Box(NameL, None, None, None, None)}

ValidateAttrs ==
    << {Plain(TEMPLATE), Plain(NameBG), Plain(NameS)},
       ValidateBoxes,
       {Plain(NameA)} >>

ValidateDocs(n) ==
    {MkPsd(Some(4), Some(4), Some(f)) : f \in Forests(n, ValidateAttrs)}
    \cup {MkPsd(Some(4), Some(4), None)}

MapLayersToContainers ==
    /\ report' = mapLayersToContainers(psd, template)
    /\ op' = "mapLayersToContainers"
    /\ UNCHANGED <<psd, template, addrVars, extractVars, compositeVars>>

MapLayersToContainers2 ==
    /\ report' = mapLayersToContainers2(psd, template)
    /\ op' = "mapLayersToContainers2"
    /\ UNCHANGED <<psd, template, addrVars, extractVars, compositeVars>>

InitValidate ==
    /\ psd \in ValidateDocs(MaxValidateNodes)
    /\ template \in Templates
    /\ report = NoReport
    /\ op = "init"
    /\ IdleAddr /\ IdleExtract /\ IdleComposite

NextValidate ==
    \/ MapLayersToContainers
    \/ MapLayersToContainers2

SpecValidate == InitValidate /\ [][NextValidate]_vars

Validated == op \in {"mapLayersToContainers", "mapLayersToContainers2"}

\* the top-level layers of the document
TopLayers == IF IsSome(psd.children) THEN Val(psd.children) ELSE <<>>
KidsOf(layer) == IF IsSome(layer.children) THEN Val(layer.children) ELSE <<>>

\* how many issues of the report were raised for the layer
IssueCount(layer) ==
    Cardinality({i \in 1..Len(report.issues) : report.issues[i].src = layer.uid})

\* the container a design group is checked against: the one the validator
\* looks up under the group's name (the last container of that name)
Matched(group) ==
    IF group.name # TEMPLATE /\ group.name # <<>>
    THEN ContainerMapGet(template, group.name)
    ELSE None

InsideBox(layer, c) ==
    /\ Val(layer.left) >= c.bounds.x
    /\ Val(layer.top) >= c.bounds.y
    /\ Val(layer.right) <= c.bounds.x + c.bounds.w
    /\ Val(layer.bottom) <= c.bounds.y + c.bounds.h

FullBounds(layer) ==
    IsSome(layer.top) /\ IsSome(layer.left) /\ IsSome(layer.bottom) /\ IsSome(layer.right)

(***************************************************************************)
(* C6.  Validator exactness.                                               *)
(***************************************************************************)
ExactFor(defs) ==
    op \in defs =>
        \A g \in 1..Len(TopLayers) :
            IsSome(Matched(TopLayers[g])) =>
                \A l \in 1..Len(KidsOf(TopLayers[g])) :
                    LET layer == KidsOf(TopLayers[g])[l]
                    IN  FullBounds(layer) =>
                            IssueCount(layer) =
                                (IF InsideBox(layer, Val(Matched(TopLayers[g]))) THEN 0 ELSE 1)

\* C6: for a top-level design group whose name matches a container, a child
\* with four numeric bounds that lies inside the container's box has no
\* issue in the report, and a child beyond any edge has exactly one.
C6_ValidatorExact == ExactFor({"mapLayersToContainers", "mapLayersToContainers2"})

\* the same for the first definition alone
C6_FirstDefinitionExact == ExactFor({"mapLayersToContainers"})

(***************************************************************************)
(* C7.  No issue for a layer with missing bounds.                          *)
(***************************************************************************)
\* C7: a child of a top-level group that lacks any of top, left, bottom,
\* right has no issue in the report, whatever its other bounds.
C7_PartialBoundsSkipped ==
    Validated =>
        \A g \in 1..Len(TopLayers) :
            \A l \in 1..Len(KidsOf(TopLayers[g])) :
                LET layer == KidsOf(TopLayers[g])[l]
                IN  ~FullBounds(layer) => IssueCount(layer) = 0

\* a matched design group holds a layer without a top whose other bounds lie
\* beyond the container, next to a layer that is reported
C7_Witness ==
    /\ op = "mapLayersToContainers"
    /\ \E g \in 1..Len(TopLayers) :
          /\ IsSome(Matched(TopLayers[g]))
          /\ \E l, m \in 1..Len(KidsOf(TopLayers[g])) :
                LET layer == KidsOf(TopLayers[g])[l]
                    other == KidsOf(TopLayers[g])[m]
                IN  /\ ~IsSome(layer.top) /\ IsSome(layer.left)
                    /\ Val(layer.left) < Val(Matched(TopLayers[g])).bounds.x
                    /\ IssueCount(layer) = 0
                    /\ IssueCount(other) = 1

(***************************************************************************)
(* Inputs of the compositor.                                               *)
(***************************************************************************)
\* The native document: a layer with pixels, one whose pixels cannot be
\* drawn, one without pixels.
Pixels(c) == [Plain(NameA) EXCEPT !.canvas = c]
PixelDoc ==
    MkPsd(Some(2), Some(2),
          Some(<<MkLayer(<<0>>, Pixels("ok"), None),
                 MkLayer(<<1>>, Pixels("corrupt"), None),
                 MkLayer(<<2>>, Pixels("none"), None)>>))

\* the id the serializer of a definition gives the k-th top-level layer
IdOf(def, k) ==
    IF def = "first"
    THEN getCleanLayerTree(Val(PixelDoc.children), <<>>)[k + 1].id
    ELSE getCleanLayerTree2(Val(PixelDoc.children), RootId)[k + 1].id

\* an id whose index is a letter
MalformedId(def) == IF def = "first" THEN <<"r">> ELSE RootId \o <<"-", "r">>

InBox == [x |-> 0, y |-> 0, w |-> 2, h |-> 2]
OffBox == [x |-> 5, y |-> 0, w |-> 2, h |-> 2]

TAttr(id, type, vis, box, rot) ==
    [id |-> id, type |-> type, isVisible |-> vis, opacity |-> 100, coords |-> box,
     transform |-> [rotation |-> rot]]

\* at the top level: a layer that is drawn, one whose pixels cannot be drawn
\* (rotated), a group shown and hidden, and a generative layer; the ids of
\* one definition name no layer for the resolver of the other
TopProfiles(def) ==
    {TAttr(id, "layer", TRUE, InBox, 0) :
        id \in {IdOf(def, 0)} \cup (IF def = "second" THEN {MalformedId(def)} ELSE {})}
    \cup {TAttr(IdOf(def, 1), "layer", TRUE, InBox, 90),
          TAttr(IdOf(def, 0), "group", TRUE, InBox, 0),
          TAttr(IdOf(def, 0), "group", FALSE, InBox, 0),
          TAttr(IdOf(def, 0), "generative", TRUE, InBox, 0)}

\* below the top level: a layer that is drawn, one that cannot be, one
\* without pixels, a generative layer on and off the canvas, and a layer and
\* a generative layer that are hidden
ChildProfiles(def) ==
    {TAttr(IdOf(def, 0), "layer", TRUE, InBox, 0),
     TAttr(IdOf(def, 1), "layer", TRUE, InBox, 0),
     TAttr(IdOf(def, 2), "layer", TRUE, InBox, 0),
     TAttr(IdOf(def, 0), "generative", TRUE, OffBox, 0),
     TAttr(IdOf(def, 0), "generative", TRUE, InBox, 0),
     TAttr(IdOf(def, 0), "layer", FALSE, InBox, 0),
     TAttr(IdOf(def, 0), "generative", FALSE, InBox, 0)}

DeepProfiles(def) == {TAttr(IdOf(def, 0), "layer", TRUE, InBox, 0)}

PayloadAttrs(def) == <<TopProfiles(def), ChildProfiles(def), DeepProfiles(def)>>

MkTLayer(path, a, kids) ==
    [id |-> a.id, type |-> a.type, isVisible |-> a.isVisible, opacity |-> a.opacity,
     coords |-> a.coords, transform |-> a.transform, children |-> kids, pos |-> path]

\* Forests of exactly n payload layers (see ForestFrom); a visible group alone
\* may carry an empty child list.
RECURSIVE PForestFrom(_, _, _, _)
RECURSIVE PTreeAt(_, _, _)
PForestFrom(n, prefix, start, attrs) ==
    IF n = 0 THEN {<<>>}
    ELSE UNION { { <<t>> \o r : t \in PTreeAt(k, prefix \o <<start>>, attrs),
                                r \in PForestFrom(n - k, prefix, start + 1, attrs) }
                 : k \in 1..n }
PTreeAt(k, path, attrs) ==
    LET A == attrs[Min(Len(path), Len(attrs))]
    IN  IF k = 1
        THEN {MkTLayer(path, a, None) : a \in A}
             \cup {MkTLayer(path, a, Some(<<>>)) : a \in {b \in A : b.type = "group" /\ b.isVisible}}
        ELSE {MkTLayer(path, a, Some(f)) : a \in A, f \in PForestFrom(k - 1, path, 0, attrs)}

PForests(maxN) ==
    UNION {PForestFrom(n, <<>>, 0, PayloadAttrs(def)) : n \in 0..maxN, def \in {"first", "second"}}

MkPayload(w, h, preview, layers) ==
    [metrics |-> [target |-> [w |-> w, h |-> h, x |-> None, y |-> None]],
     previewUrl |-> preview, layers |-> layers]

\* every layer of a payload forest, at any depth
RECURSIVE AllTLayers(_)
AllTLayers(layers) ==
    UNION { {layers[i]} \cup (IF IsSome(layers[i].children) THEN AllTLayers(Val(layers[i].children)) ELSE {})
            : i \in 1..Len(layers) }

\* the preview reference is read by the first definition alone, for a
\* generative layer (line 447): the payloads that carry one hold such a
\* layer and ids of the first definition
CompositePayloads(n) ==
    {MkPayload(2, 2, FALSE, f) : f \in PForests(n)}
    \cup {MkPayload(2, 2, TRUE, f) :
             f \in {g \in UNION {PForestFrom(m, <<>>, 0, PayloadAttrs("first")) : m \in 0..n} :
                       \E l \in AllTLayers(g) : l.type = "generative"}}

\* target sizes: positive, zero, negative
TargetSizes == {<<2, 2>>, <<0, 0>>, <<0, 2>>, <<2, 0>>, <<0 - 1, 2>>, <<2, 0 - 1>>}
TargetPayloads(n) ==
    {MkPayload(t[1], t[2], FALSE, f) : t \in TargetSizes, f \in PForests(n)}

CompositePayloadToCanvas ==
    /\ out' = compositePayloadToCanvas(payload, psd, ctxOk)
    /\ op' = "compositePayloadToCanvas"
    /\ UNCHANGED <<psd, payload, ctxOk, addrVars, extractVars, validateVars>>

CompositePayloadToCanvas2 ==
    /\ out' = compositePayloadToCanvas2(payload, psd, ctxOk)
    /\ op' = "compositePayloadToCanvas2"
    /\ UNCHANGED <<psd, payload, ctxOk, addrVars, extractVars, validateVars>>

NextComposite ==
    \/ CompositePayloadToCanvas
    \/ CompositePayloadToCanvas2

\* Painting: a payload is composited onto a 2 x 2 canvas.
InitComposite ==
    /\ psd = PixelDoc
    /\ payload \in CompositePayloads(MaxPayloadNodes)
    /\ ctxOk = TRUE
    /\ out = NoOut
    /\ op = "init"
    /\ IdleAddr /\ IdleExtract /\ IdleValidate

SpecComposite == InitComposite /\ [][NextComposite]_vars

\* Target sizes: a payload is composited onto a canvas of any size, with or
\* without a drawing context.
InitTarget ==
    /\ psd = PixelDoc
    /\ payload \in TargetPayloads(MaxTargetNodes)
    /\ ctxOk \in BOOLEAN
    /\ out = NoOut
    /\ op = "init"
    /\ IdleAddr /\ IdleExtract /\ IdleValidate

SpecTarget == InitTarget /\ [][NextComposite]_vars

Composited == op \in {"compositePayloadToCanvas", "compositePayloadToCanvas2"}

DrawOps == {"fillRect", "strokeRect", "fillText", "drawImage"}

Encoded(o) == \E i \in 1..Len(o.calls) : o.calls[i].f = "toDataURL"

(***************************************************************************)
(* C3.  A target without area.                                             *)
(***************************************************************************)
NoArea == payload.metrics.target.w <= 0 \/ payload.metrics.target.h <= 0

\* C3: when the target width or height is zero or negative, the compositor
\* returns null, does not throw, and encodes no image.
C3_NoAreaIsUnavailable ==
    (Composited /\ NoArea) => (out.result = "null" /\ ~Encoded(out))

\* the same for the second definition alone
C3_SecondDefinitionUnavailable ==
    (op = "compositePayloadToCanvas2" /\ NoArea) => (out.result = "null" /\ ~Encoded(out))

(***************************************************************************)
(* C4.  Painter order.                                                     *)
(***************************************************************************)
\* positions p and q part at some level, p under the later sibling there
LaterBranch(p, q) ==
    \E k \in 1..Min(Len(p), Len(q)) :
        /\ \A m \in 1..(k - 1) : p[m] = q[m]
        /\ p[k] > q[k]
\* positions p and q part at some level
Apart(p, q) ==
    \E k \in 1..Min(Len(p), Len(q)) : p[k] # q[k]

\* C4: at every level the siblings are handled from the last index down to
\* index 0, depth first: of two calls made for layers under different
\* siblings of one level, the one under the sibling of higher index comes
\* first; the same for the ids looked up.
C4_PainterOrder ==
    Composited =>
        /\ \A a, b \in 1..Len(out.calls) :
               (a < b /\ Apart(out.calls[a].layer, out.calls[b].layer))
                   => LaterBranch(out.calls[a].layer, out.calls[b].layer)
        /\ \A a, b \in 1..Len(out.finds) :
               (a < b /\ Apart(out.finds[a].layer, out.finds[b].layer))
                   => LaterBranch(out.finds[a].layer, out.finds[b].layer)

\* a layer at index 0 and a child of the group at index 1 are both drawn
C4_Witness ==
    /\ op = "compositePayloadToCanvas"
    /\ out.result = "url"
    /\ \E a, b \in 1..Len(out.calls) :
          /\ a < b
          /\ out.calls[a].f \in DrawOps /\ out.calls[a].layer = <<1, 0>>
          /\ out.calls[b].f \in DrawOps /\ out.calls[b].layer = <<0>>

(***************************************************************************)
(* C5.  A failed draw is swallowed at its node.                            *)
(***************************************************************************)
\* the document with every pixel source drawable
Healed(p) ==
    [p EXCEPT !.children =
        Some([i \in 1..Len(Val(p.children)) |->
                 [Val(p.children)[i] EXCEPT
                     !.canvas = IF @ = "corrupt" THEN "ok" ELSE @]])]

\* the payload layers a draw call was made for
Painted(o) == {o.calls[i].layer : i \in {j \in 1..Len(o.calls) : o.calls[j].f \in DrawOps}}

DrawFailed(o) == \E i \in 1..Len(o.calls) : o.calls[i].failed

SwallowedFor(defs) ==
    (op \in defs /\ DrawFailed(out)) =>
        /\ out.result = "url"
        /\ Encoded(out)
        /\ Painted(out) =
              Painted(IF op = "compositePayloadToCanvas"
                      THEN compositePayloadToCanvas(payload, Healed(psd), ctxOk)
                      ELSE compositePayloadToCanvas2(payload, Healed(psd), ctxOk))

\* C5: when drawing one layer's pixels fails, the compositor does not throw,
\* returns an encoded image, and paints every layer it paints when no draw
\* fails.
C5_DrawFailureSwallowed ==
    SwallowedFor({"compositePayloadToCanvas", "compositePayloadToCanvas2"})

\* the same for the first definition alone
C5_FirstDefinitionSwallows == SwallowedFor({"compositePayloadToCanvas"})

(***************************************************************************)
(* C14.  A generative layer is given a placeholder, never a lookup.        *)
(***************************************************************************)
\* The layers a traversal comes to with the visibility flag set.  The first
\* definition passes over a layer off the canvas and over a hidden one, and
\* goes below a group alone; the second passes over a hidden layer and goes
\* below every layer that has children.
RECURSIVE Reached(_, _, _)
Reached(def, layers, pl) ==
    UNION { LET l == layers[i]
                shown == IF def = "first"
                         THEN l.isVisible /\ ~Culled(l, pl.metrics.target.w, pl.metrics.target.h)
                         ELSE l.isVisible
                below == IF def = "first"
                         THEN l.type = "group" /\ IsSome(l.children)
                         ELSE IsSome(l.children)
            IN  IF ~shown THEN {}
                ELSE {l} \cup (IF below THEN Reached(def, Val(l.children), pl) ELSE {})
            : i \in 1..Len(layers) }

DefOf(o) == IF o = "compositePayloadToCanvas" THEN "first" ELSE "second"

\* a rectangle is filled and stroked on the layer's box, for that layer
HasPlaceholder(o, l) ==
    LET r == RectArgs(l.coords.x, l.coords.y, l.coords.w, l.coords.h)
    IN  /\ \E i \in 1..Len(o.calls) :
              o.calls[i].f = "fillRect" /\ o.calls[i].layer = l.pos /\ o.calls[i].args = r
        /\ \E i \in 1..Len(o.calls) :
              o.calls[i].f = "strokeRect" /\ o.calls[i].layer = l.pos /\ o.calls[i].args = r

LookedUp(o, l) == \E i \in 1..Len(o.finds) : o.finds[i].layer = l.pos

DrewItself(o, l) ==
    \E i \in 1..Len(o.calls) : o.calls[i].f \in DrawOps /\ o.calls[i].layer = l.pos

GroupsInertFor(defs) ==
    op \in defs =>
        \A l \in AllTLayers(payload.layers) :
            l.type = "group" => (~DrewItself(out, l) /\ ~LookedUp(out, l))

\* C15: for a payload layer of kind 'group', with or without a child list,
\* no draw call is made for the group itself and its id is never looked up
\* in the native tree.
C15_GroupNeverDraws ==
    GroupsInertFor({"compositePayloadToCanvas", "compositePayloadToCanvas2"})

\* the same for the second definition alone
C15_SecondDefinitionGroupInert == GroupsInertFor({"compositePayloadToCanvas2"})

(***************************************************************************)
(* C16.  Scoped transforms.                                                *)
(***************************************************************************)
\* position p is position q or lies above it
IsPrefix(p, q) == Len(p) <= Len(q) /\ SubSeq(q, 1, Len(p)) = p

\* the calls that change the state of the context
StateOps == {"globalAlpha", "translate", "rotate"}

CountOf(o, f) == Cardinality({i \in 1..Len(o.calls) : o.calls[i].f = f})

\* the save at index i is matched by a restore of the same layer, with the
\* calls of that layer and of the layers below it alone in between
SaveIsScoped(o, i) ==
    \E j \in (i + 1)..Len(o.calls) :
        /\ o.calls[j].f = "restore" /\ o.calls[j].layer = o.calls[i].layer
        /\ \A k \in (i + 1)..(j - 1) : IsPrefix(o.calls[i].layer, o.calls[k].layer)

\* the call at index k lies between a save and the restore of its own layer
InOwnScope(o, k) ==
    \E i \in 1..(k - 1) :
        /\ o.calls[i].f = "save" /\ o.calls[i].layer = o.calls[k].layer
        /\ \A m \in (i + 1)..(k - 1) :
               ~(o.calls[m].f = "restore" /\ o.calls[m].layer = o.calls[k].layer)
        /\ SaveIsScoped(o, i)

ScopedFor(defs) ==
    op \in defs =>
        /\ \A i \in 1..Len(out.calls) : out.calls[i].f = "save" => SaveIsScoped(out, i)
        /\ \A k \in 1..Len(out.calls) : out.calls[k].f \in StateOps => InOwnScope(out, k)
        /\ CountOf(out, "save") = CountOf(out, "restore")

\* C16: every save made for a layer is matched by a restore of that layer
\* before any call is made for a sibling or for the parent, on every path
\* (a failed draw included); the alpha, translation and rotation of a layer
\* are set between the two; and the saves and restores are equal in number
\* when the compositing ends.
C16_ScopedTransforms ==
    ScopedFor({"compositePayloadToCanvas", "compositePayloadToCanvas2"})

\* the same for the first definition alone
C16_FirstDefinitionScoped == ScopedFor({"compositePayloadToCanvas"})

(***************************************************************************)
(* C17.  A layer without pixels to draw is passed over.                    *)
(***************************************************************************)
\* the layer's id names a native layer that has a pixel surface, for the
\* resolver of the definition that acted
HasPixels(o, l) ==
    LET r == IF o = "compositePayloadToCanvas"
             THEN findLayerByPath(psd, l.id)
             ELSE findLayerByPath2(psd, l.id)
    IN  r.kind = "node" /\ Val(r.node).canvas # "none"

\* a layer of kind 'layer' the traversal comes to, with nothing to draw
Undrawable(o, l) == l.type = "layer" /\ ~HasPixels(o, l)

PassedOverFor(defs) ==
    (op \in defs /\ ~DrawFailed(out)) =>
        LET R == Reached(DefOf(op), payload.layers, payload)
        IN  (\E l \in R : Undrawable(op, l)) =>
                /\ out.result = "url" /\ Encoded(out)
                /\ \A l \in R : Undrawable(op, l) => ~DrewItself(out, l)
                /\ \A m \in R : ((m.type = "layer" /\ HasPixels(op, m)) \/ m.type = "generative")
                                    => DrewItself(out, m)

\* C17: when a visible layer of kind 'layer' has an id that names no native
\* layer, or names one without a pixel surface, no draw call is made for it,
\* nothing is thrown, the other layers are painted and an image is encoded
\* (no draw call failing).
C17_UnresolvedLayerSkipped ==
    PassedOverFor({"compositePayloadToCanvas", "compositePayloadToCanvas2"})

\* the same for the first definition alone
C17_FirstDefinitionSkips == PassedOverFor({"compositePayloadToCanvas"})

(***************************************************************************)
(* C18.  A hidden layer, and everything below it, is never drawn.          *)
(***************************************************************************)
\* the layer is hidden, or lies below a hidden layer
Concealed(l) ==
    \E h \in AllTLayers(payload.layers) : ~h.isVisible /\ IsPrefix(h.pos, l.pos)

\* C18: no draw call is made for a payload layer whose visibility flag is
\* false, nor for any layer below such a layer, whatever the kinds of the
\* layers; no id of such a layer is looked up either.
C18_HiddenNeverDrawn ==
    Composited =>
        \A l \in AllTLayers(payload.layers) :
            Concealed(l) => (~DrewItself(out, l) /\ ~LookedUp(out, l))

\* under the second definition a shown layer that would be drawn lies below
\* a hidden group and is not drawn, while a layer beside the group is
C18_Witness ==
    /\ op = "compositePayloadToCanvas2"
    /\ out.result = "url"
    /\ \E h, l, m \in AllTLayers(payload.layers) :
          /\ ~h.isVisible /\ h.type = "group" /\ Len(h.pos) = 1
          /\ l.isVisible /\ l.type = "layer" /\ HasPixels(op, l)
          /\ Len(l.pos) = 2 /\ IsPrefix(h.pos, l.pos)
          /\ ~DrewItself(out, l)
          /\ ~Concealed(m) /\ DrewItself(out, m)

====
